---------------------------- MODULE Spec2Model ----------------------------
(***************************************************************************)
(* A model of scripts/analyze_pdf_fonts.py: the number tokenizer, the      *)
(* object-stream decoder, the object collector, the widget inspector, the  *)
(* DA string parser and the field-name decoder.                            *)
(*                                                                         *)
(* Bytes are integers 0..255 and a bytes object is a sequence of them; a   *)
(* Python str is a sequence of code points.  Python indices are 0-based:   *)
(* the operators below keep the code's 0-based indices and translate at    *)
(* the point of access (At, PySlice).  A dict is a sequence of [k, v]      *)
(* records in insertion order: assigning to a key that is present replaces *)
(* its value in place, as a Python dict does.                              *)
(*                                                                         *)
(* A local of the code that is used more than once is the parameter of a   *)
(* helper operator, so that it is computed once.                           *)
(***************************************************************************)
EXTENDS Integers, Sequences, FiniteSets, TLC

VARIABLES
    pc,         \* position in the program (or in the function called)
    pdf_bytes,  \* main: the document buffer
    pos,        \* the current finditer loop's search position (0-based)
    objects,    \* collect_objects: the ObjectMap being built
    defaults,   \* collect_widget_defaults: the WidgetRecord map being built
    scanned,    \* history: the (field name, record) pairs stored, in order
    arg,        \* the argument of the function called
    ret,        \* its result
    fixture     \* how the input was built (what the builder knows about it)

vars == <<pc, pdf_bytes, pos, objects, defaults, scanned, arg, ret, fixture>>

---------------------------------------------------------------------------
(* Sequences, bytes, dicts.                                                *)

Min(S) == CHOOSE x \in S : \A y \in S : x <= y
Max(S) == CHOOSE x \in S : \A y \in S : x >= y

\* the least element of S, or d when S is empty
MinOr(S, d) == IF S = {} THEN d ELSE Min(S)
MaxOr(S, d) == IF S = {} THEN d ELSE Max(S)

Range(s) == {s[i] : i \in 1..Len(s)}

\* stream[index], 0-based
At(s, i) == s[i + 1]

\* a slice bound as Python normalizes it: a negative bound counts from the
\* end, and every bound is clamped to 0..n
ClampIndex(i, n) ==
    IF i < 0 THEN (IF i + n < 0 THEN 0 ELSE i + n) ELSE (IF i > n THEN n ELSE i)

\* Python's s[a:b]
PySlice(s, a, b) ==
    IF ClampIndex(a, Len(s)) >= ClampIndex(b, Len(s)) THEN <<>>
    ELSE SubSeq(s, ClampIndex(a, Len(s)) + 1, ClampIndex(b, Len(s)))

\* whether needle occurs in hay at 0-based index i
OccursAt(hay, needle, i) ==
    /\ i >= 0
    /\ i + Len(needle) <= Len(hay)
    /\ \A j \in 1..Len(needle) : hay[i + j] = needle[j]

\* bytes.find(needle, from): the least 0-based index >= from, or -1
Find(hay, needle, from) ==
    MinOr({i \in from..(Len(hay) - Len(needle)) : OccursAt(hay, needle, i)}, -1)

\* the greatest 0-based index >= from where needle occurs, or -1
FindLast(hay, needle, from) ==
    MaxOr({i \in from..(Len(hay) - Len(needle)) : OccursAt(hay, needle, i)}, -1)

\* needle in hay
Contains(hay, needle) == Find(hay, needle, 0) # -1

IsDigit(b) == b \in 48..57

\* the ASCII decimal digits of a natural number
RECURSIVE Digits(_)
Digits(n) == IF n < 10 THEN <<48 + n>> ELSE Digits(n \div 10) \o <<48 + (n % 10)>>

\* the value of a run of ASCII decimal digits
RECURSIVE DigitsValue(_)
DigitsValue(ds) ==
    IF ds = <<>> THEN 0
    ELSE 10 * DigitsValue(SubSeq(ds, 1, Len(ds) - 1)) + (ds[Len(ds)] - 48)

\* s without its leading and trailing elements of ws: lead and trail are the
\* lengths of the two runs
StripRuns(s, lead, trail) ==
    IF lead = Len(s) THEN <<>> ELSE SubSeq(s, lead + 1, Len(s) - trail)
Strip(s, ws) ==
    StripRuns(s, MinOr({k \in 0..(Len(s) - 1) : s[k + 1] \notin ws}, Len(s)),
              MinOr({k \in 0..(Len(s) - 1) : s[Len(s) - k] \notin ws}, Len(s)))

\* ASCII whitespace for bytes.strip() and int(bytes): space, \t, \n, \v, \f, \r
PyBytesWs == {32, 9, 10, 11, 12, 13}

\* bytes.strip()
PyStrip(s) == Strip(s, PyBytesWs)

\* the maximal runs of elements of s outside ws, from 1-based index i on
FirstOutside(s, ws, i) == MinOr({j \in i..Len(s) : s[j] \notin ws}, 0)
FirstInside(s, ws, i) == MinOr({j \in i..Len(s) : s[j] \in ws}, Len(s) + 1)
RECURSIVE SplitFrom(_, _, _)
SplitRun(s, ws, b) ==
    IF b = 0 THEN <<>>
    ELSE <<SubSeq(s, b, FirstInside(s, ws, b) - 1)>> \o SplitFrom(s, ws, FirstInside(s, ws, b))
SplitFrom(s, ws, i) == SplitRun(s, ws, FirstOutside(s, ws, i))
SplitOn(s, ws) == SplitFrom(s, ws, 1)

EmptyDict == <<>>
DictKeys(d) == {d[i].k : i \in 1..Len(d)}
DictHas(d, k) == k \in DictKeys(d)
DictGet(d, k) == d[CHOOSE i \in 1..Len(d) : d[i].k = k].v
DictValues(d) == [i \in 1..Len(d) |-> d[i].v]

\* d[k] = v: a present key keeps its place, a new key is appended
DictSet(d, k, v) ==
    IF DictHas(d, k)
    THEN [i \in 1..Len(d) |-> IF d[i].k = k THEN [k |-> k, v |-> v] ELSE d[i]]
    ELSE Append(d, [k |-> k, v |-> v])

---------------------------------------------------------------------------
(* read_number and parse_object_stream.                                    *)

\* the bytes read_number skips and stops at: b" \n\r\t\f\x00"
NumberWs == {32, 10, 13, 9, 12, 0}

ValueError == [ok |-> FALSE, value |-> 0, index |-> 0]

\* a run of decimal digits in which single underscores may stand between digits
DigitGroup(g) ==
    /\ g # <<>>
    /\ \A i \in 1..Len(g) : IsDigit(g[i]) \/ g[i] = 95
    /\ IsDigit(g[1]) /\ IsDigit(g[Len(g)])
    /\ \A i \in 1..(Len(g) - 1) : ~(g[i] = 95 /\ g[i + 1] = 95)

HasSign(t) == t # <<>> /\ t[1] \in {43, 45}
IsNegative(t) == t # <<>> /\ t[1] = 45
Unsigned(t) == IF HasSign(t) THEN Tail(t) ELSE t
Signed(neg, n) == IF neg THEN 0 - n ELSE n

\* int(bytes): surrounding whitespace stripped, an optional sign, decimal
\* digits with single underscores allowed between digits; else ValueError
PyIntStripped(t) ==
    IF ~DigitGroup(Unsigned(t)) THEN [ok |-> FALSE, value |-> 0]
    ELSE [ok |-> TRUE,
          value |-> Signed(IsNegative(t), DigitsValue(SelectSeq(Unsigned(t), IsDigit)))]
PyInt(tok) == PyIntStripped(PyStrip(tok))

\* the first while loop of read_number: where the whitespace from index ends
SkipNumberWs(stream, index) ==
    MinOr({i \in index..(Len(stream) - 1) : At(stream, i) \notin NumberWs},
          IF index > Len(stream) THEN index ELSE Len(stream))

\* the second while loop: where the token that begins at start ends
NumberEnd(stream, start) ==
    MinOr({i \in start..(Len(stream) - 1) : At(stream, i) \in NumberWs},
          IF start > Len(stream) THEN start ELSE Len(stream))

NumberResult(n, index) ==
    IF ~n.ok THEN ValueError ELSE [ok |-> TRUE, value |-> n.value, index |-> index]

NumberToken(stream, start, end) ==
    IF start = end THEN ValueError
    ELSE NumberResult(PyInt(PySlice(stream, start, end)), end)

NumberFrom(stream, start) == NumberToken(stream, start, NumberEnd(stream, start))

read_number(stream, index) == NumberFrom(stream, SkipNumberWs(stream, index))

\* one iteration of the header loop: obj_num, then offset, each by read_number
NoPair == [ok |-> FALSE, obj_num |-> 0, offset |-> 0, index |-> 0]
PairOf(a, b) ==
    IF ~b.ok THEN NoPair
    ELSE [ok |-> TRUE, obj_num |-> a.value, offset |-> b.value, index |-> b.index]
PairAfter(raw, a) == IF ~a.ok THEN NoPair ELSE PairOf(a, read_number(raw, a.index))
ReadPair(raw, index) == PairAfter(raw, read_number(raw, index))

\* the header loop of parse_object_stream with k iterations left: the pairs
\* read, the cursor, and whether every read_number call succeeded
RECURSIVE read_header_pairs(_, _, _, _)
HeaderStep(raw, index, k, header_pairs, p) ==
    IF ~p.ok THEN [ok |-> FALSE, pairs |-> header_pairs, index |-> index]
    ELSE read_header_pairs(raw, p.index, k - 1,
                           Append(header_pairs, <<p.obj_num, p.offset>>))
read_header_pairs(raw, index, k, header_pairs) ==
    IF k = 0 THEN [ok |-> TRUE, pairs |-> header_pairs, index |-> index]
    ELSE HeaderStep(raw, index, k, header_pairs, ReadPair(raw, index))

\* the slicing loop of parse_object_stream from entry i on
RECURSIVE slice_objects(_, _, _, _, _)
slice_objects(raw, header_pairs, data_start, i, mapping) ==
    IF i > Len(header_pairs) THEN mapping
    ELSE slice_objects(raw, header_pairs, data_start, i + 1,
             DictSet(mapping, header_pairs[i][1],
                     PySlice(raw, data_start + header_pairs[i][2],
                             data_start + (IF i + 1 <= Len(header_pairs)
                                           THEN header_pairs[i + 1][2]
                                           ELSE Len(raw) - data_start))))

\* a wrong end of the header loop: `break` where the code has `return {}`
HeaderBreak(raw, h) == slice_objects(raw, h.pairs, h.index, 1, EmptyDict)

\* the end of the header loop: return {} on a tokenizer failure, else slice
HeaderDone(raw, h) ==
    IF ~h.ok THEN EmptyDict ELSE slice_objects(raw, h.pairs, h.index, 1, EmptyDict)

parse_object_stream(raw, n_objects) ==
    HeaderDone(raw, read_header_pairs(raw, 0, n_objects, <<>>))

---------------------------------------------------------------------------
(* Bounds.                                                                 *)

\* longest enumerated object-stream buffer
MaxLen == 5
\* largest declared object count N for an enumerated buffer
MaxN == 2
\* most objects packed into a built object stream, and their largest number
MaxPacked == 2
\* most tokens in a DA string
MaxTokens == 4
\* longest content of a field-name token
MaxNameLen == 4
\* most indirect objects in a document
MaxSegs == 2

---------------------------------------------------------------------------
(* Inputs of the object-stream decoder.                                    *)

\* the bytes of the enumerated buffers: "1", "2", space, "A"
StmAlphabet == {49, 50, 32, 65}

StmBuffers == UNION {[1..n -> StmAlphabet] : n \in 0..MaxLen}

\* contents packed into built object streams: b"A", b"BC", b" D", b""
PackedContents == {<<65>>, <<66, 67>>, <<32, 68>>, <<>>}

\* the lists of objects with distinct numbers to pack
PackedLists ==
    UNION {{os \in [1..n -> [num : 1..MaxPacked, content : PackedContents]] :
              \A i, j \in 1..n : i # j => os[i].num # os[j].num} : n \in 1..MaxPacked}

\* offset of object i: where its content starts, counted from the first byte
\* of the first object's content, the contents being separated by sep
RECURSIVE PackedOffset(_, _, _)
PackedOffset(os, sep, i) ==
    IF i = 1 THEN 0
    ELSE PackedOffset(os, sep, i - 1) + Len(os[i - 1].content) + Len(sep)

RECURSIVE PackedHeader(_, _, _)
PackedHeader(os, sep, i) ==
    IF i > Len(os) THEN <<>>
    ELSE (IF i = 1 THEN <<>> ELSE <<32>>)
         \o Digits(os[i].num) \o <<32>> \o Digits(PackedOffset(os, sep, i))
         \o PackedHeader(os, sep, i + 1)

RECURSIVE PackedData(_, _, _)
PackedData(os, sep, i) ==
    IF i > Len(os) THEN <<>>
    ELSE (IF i = 1 THEN <<>> ELSE sep) \o os[i].content \o PackedData(os, sep, i + 1)

\* an object stream: the header pairs, a gap, the contents
BuildObjectStream(os, gap, sep) == PackedHeader(os, sep, 1) \o gap \o PackedData(os, sep, 1)

\* whitespace between the header and the data, and between the contents
Gaps == {<<>>, <<32>>, <<10>>}
Seps == {<<>>, <<32>>}

NoFixture == [built |-> FALSE, objs |-> <<>>, gap |-> <<>>, sep |-> <<>>]

StmInit ==
    /\ pc = "call"
    /\ \/ /\ fixture = NoFixture
          /\ arg \in [raw : StmBuffers, n_objects : 0..MaxN]
       \/ \E os \in PackedLists, gap \in Gaps, sep \in Seps :
             /\ fixture = [built |-> TRUE, objs |-> os, gap |-> gap, sep |-> sep]
             /\ arg = [raw |-> BuildObjectStream(os, gap, sep), n_objects |-> Len(os)]
    /\ ret = EmptyDict
    /\ pdf_bytes = <<>> /\ pos = 0 /\ objects = EmptyDict
    /\ defaults = EmptyDict /\ scanned = <<>>

CallParseObjectStream ==
    /\ pc = "call"
    /\ ret' = parse_object_stream(arg.raw, arg.n_objects)
    /\ pc' = "ret"
    /\ UNCHANGED <<pdf_bytes, pos, objects, defaults, scanned, arg, fixture>>

StmNext == CallParseObjectStream

SpecStm == StmInit /\ [][StmNext]_vars

\* how many (object-number, offset) pairs stand at the start of a buffer: half
\* the length of its longest run of leading tokens that are all integers
LeadingInts(toks) == MinOr({i \in 1..Len(toks) : ~PyInt(toks[i]).ok}, Len(toks) + 1) - 1
ParsablePairs(raw) == LeadingInts(SplitOn(raw, NumberWs)) \div 2

\* C6: round trip of the decoder. A stream built from N objects with distinct
\* numbers (header pairs, then the contents, each offset counted from the first
\* byte of the first content) decodes to exactly those N numbers, each mapped
\* to content byte-identical to the original.
C6_RoundTrip ==
    (pc = "ret" /\ fixture.built) =>
        /\ DictKeys(ret) = {fixture.objs[i].num : i \in 1..Len(fixture.objs)}
        /\ \A i \in 1..Len(fixture.objs) :
              DictHas(ret, fixture.objs[i].num) =>
                  DictGet(ret, fixture.objs[i].num) = fixture.objs[i].content

\* C7: when fewer than N header pairs can be tokenized from the start of the
\* buffer, the decoder returns the empty mapping, never the pairs read so far.
C7_NoPartialResult ==
    (pc = "ret" /\ ParsablePairs(arg.raw) < arg.n_objects) => ret = EmptyDict

\* C7 witness: one pair was read, the second could not be, and the result is
\* empty.
C7_Witness ==
    /\ pc = "ret"
    /\ ~fixture.built
    /\ arg.n_objects = 2
    /\ ParsablePairs(arg.raw) = 1
    /\ ret = EmptyDict

---------------------------------------------------------------------------
(* parse_da.                                                               *)

\* str.strip() and str.split(): the code points below 256 for which
\* str.isspace() holds
PyStrWs == {9, 10, 11, 12, 13, 28, 29, 30, 31, 32, 133, 160}

\* s.endswith(suffix)
EndsWith(s, suffix) ==
    /\ Len(s) >= Len(suffix)
    /\ SubSeq(s, Len(s) - Len(suffix) + 1, Len(s)) = suffix

\* s.lower() on ASCII letters
Lower(s) == [i \in 1..Len(s) |-> IF s[i] \in 65..90 THEN s[i] + 32 ELSE s[i]]

\* a float as sign * mant * 10^exp with mant not divisible by 10 (0 has exp 0)
RECURSIVE Normalize(_, _, _)
Normalize(neg, mant, exp) ==
    IF mant = 0 THEN [kind |-> "num", neg |-> neg, mant |-> 0, exp |-> 0]
    ELSE IF mant % 10 = 0 THEN Normalize(neg, mant \div 10, exp + 1)
    ELSE [kind |-> "num", neg |-> neg, mant |-> mant, exp |-> exp]

NaN == [kind |-> "nan", neg |-> FALSE, mant |-> 0, exp |-> 0]
Inf(neg) == [kind |-> "inf", neg |-> neg, mant |-> 0, exp |-> 0]
FloatError == [ok |-> FALSE, value |-> NaN]

\* the parts of s before and after its first element of marks
FirstMark(s, marks) == MinOr({i \in 1..Len(s) : s[i] \in marks}, 0)
BeforeMark(s, p) == IF p = 0 THEN s ELSE SubSeq(s, 1, p - 1)
AfterMark(s, p) == IF p = 0 THEN <<>> ELSE SubSeq(s, p + 1, Len(s))

\* float(str): surrounding whitespace stripped, an optional sign, then inf,
\* infinity or nan in any case, or a decimal number (digits, an optional point,
\* an optional exponent); anything else is a ValueError
FloatParts(neg, ipart, fpart, hasExp, epart) ==
    IF ~(/\ ipart # <<>> \/ fpart # <<>>
         /\ ipart = <<>> \/ DigitGroup(ipart)
         /\ fpart = <<>> \/ DigitGroup(fpart)
         /\ ~hasExp \/ DigitGroup(Unsigned(epart)))
    THEN FloatError
    ELSE [ok |-> TRUE,
          value |-> Normalize(neg,
                        DigitsValue(SelectSeq(ipart, IsDigit) \o SelectSeq(fpart, IsDigit)),
                        Signed(IsNegative(epart),
                               DigitsValue(SelectSeq(Unsigned(epart), IsDigit)))
                        - Len(SelectSeq(fpart, IsDigit)))]

FloatMantExp(neg, m, hasExp, e) ==
    FloatParts(neg, BeforeMark(m, FirstMark(m, {46})), AfterMark(m, FirstMark(m, {46})),
               hasExp, e)

FloatUnsigned(neg, u) ==
    IF Lower(u) \in {<<105, 110, 102>>, <<105, 110, 102, 105, 110, 105, 116, 121>>}
    THEN [ok |-> TRUE, value |-> Inf(neg)]
    ELSE IF Lower(u) = <<110, 97, 110>> THEN [ok |-> TRUE, value |-> NaN]
    ELSE FloatMantExp(neg, BeforeMark(u, FirstMark(u, {101, 69})),
                      FirstMark(u, {101, 69}) # 0,
                      AfterMark(u, FirstMark(u, {101, 69})))

PyFloatStripped(t) == FloatUnsigned(IsNegative(t), Unsigned(t))

PyFloat(tok) == PyFloatStripped(Strip(tok, PyStrWs))

\* tokens[i] with a Python index: a negative index counts from the end, an
\* index outside the list is an IndexError
PyIndexFrom0(tokens, j) ==
    IF j < 0 \/ j >= Len(tokens) THEN [ok |-> FALSE, value |-> <<>>]
    ELSE [ok |-> TRUE, value |-> tokens[j + 1]]
PyIndex(tokens, i) == PyIndexFrom0(tokens, IF i < 0 THEN i + Len(tokens) ELSE i)

\* float(tokens[i]): fails on an IndexError as on a ValueError
FloatOf(t) == IF t.ok THEN PyFloat(t.value) ELSE FloatError
FloatAt(tokens, i) == FloatOf(PyIndex(tokens, i))

Tf == <<84, 102>>  \* 'Tf'

\* the body of the `if` of parse_da at the token of index i (0-based)
FontAndSize(tokens, i, two_back, one_back) ==
    IF two_back.ok
    THEN [font_name |-> At(tokens, i - 1), size |-> two_back.value]
    ELSE IF one_back.ok /\ PyIndex(tokens, i - 2).ok
    THEN [font_name |-> PyIndex(tokens, i - 2).value, size |-> one_back.value]
    ELSE [font_name |-> At(tokens, i - 1), size |-> NaN]

\* the loop of parse_da: i is the first index the `if` accepts, -1 for none
FirstTf(tokens) ==
    MinOr({i \in 0..(Len(tokens) - 1) : EndsWith(At(tokens, i), Tf) /\ i >= 1}, -1)

ParseTokensAt(tokens, i) ==
    IF i = -1 THEN [font_name |-> <<>>, size |-> NaN]
    ELSE FontAndSize(tokens, i, FloatAt(tokens, i - 2), FloatAt(tokens, i - 1))

ParseTokens(tokens) == ParseTokensAt(tokens, FirstTf(tokens))

parse_da(da) == ParseTokens(SplitOn(Strip(da, PyStrWs), PyStrWs))

---------------------------------------------------------------------------
(* decode_field_name.                                                      *)

Returned(s) == [raised |-> FALSE, exc |-> "", str |-> s]
Raised(e) == [raised |-> TRUE, exc |-> e, str |-> <<>>]

DecodeError == [ok |-> FALSE, str |-> <<>>]
PrependChar(c, rest) == IF rest.ok THEN [ok |-> TRUE, str |-> <<c>> \o rest.str] ELSE DecodeError

\* bytes.decode('utf-16-be'), strict: 16-bit units, big end first; a surrogate
\* pair is one code point; a trailing odd byte or a lone surrogate is an error
RECURSIVE Utf16Units(_)
Utf16Units(us) ==
    IF us = <<>> THEN [ok |-> TRUE, str |-> <<>>]
    ELSE IF us[1] \in 55296..56319
    THEN IF Len(us) >= 2 /\ us[2] \in 56320..57343
         THEN PrependChar(65536 + (us[1] - 55296) * 1024 + (us[2] - 56320),
                          Utf16Units(SubSeq(us, 3, Len(us))))
         ELSE DecodeError
    ELSE IF us[1] \in 56320..57343 THEN DecodeError
    ELSE PrependChar(us[1], Utf16Units(Tail(us)))

DecodeUtf16BE(bs) ==
    IF Len(bs) % 2 = 1 THEN DecodeError
    ELSE Utf16Units([i \in 1..(Len(bs) \div 2) |-> 256 * bs[2 * i - 1] + bs[2 * i]])

\* bytes.decode('latin1', errors='replace'): every byte is its own code point
DecodeLatin1(bs) == bs

IsHexDigit(b) == b \in 48..57 \/ b \in 97..102 \/ b \in 65..70
HexValue(b) == IF b \in 48..57 THEN b - 48 ELSE IF b \in 97..102 THEN b - 87 ELSE b - 55

HexError == [ok |-> FALSE, bytes |-> <<>>]
PrependByte(b, rest) == IF rest.ok THEN [ok |-> TRUE, bytes |-> <<b>> \o rest.bytes] ELSE HexError

\* bytes.fromhex(s): pairs of hex digits, ASCII whitespace allowed around a
\* pair but not inside one; anything else is a ValueError
RECURSIVE FromHex(_)
FromHex(s) ==
    IF s = <<>> THEN [ok |-> TRUE, bytes |-> <<>>]
    ELSE IF s[1] \in PyBytesWs THEN FromHex(Tail(s))
    ELSE IF Len(s) >= 2 /\ IsHexDigit(s[1]) /\ IsHexDigit(s[2])
    THEN PrependByte(16 * HexValue(s[1]) + HexValue(s[2]), FromHex(SubSeq(s, 3, Len(s))))
    ELSE HexError

\* try: return b.decode('utf-16-be')
\* except UnicodeDecodeError: return b.decode('latin1', errors='replace')
Utf16OrLatin1(b, utf16) ==
    IF utf16.ok THEN Returned(utf16.str) ELSE Returned(DecodeLatin1(b))

\* the parenthesized branch, on content = raw[1:-1]
DecodeParenthesized(content) ==
    IF 0 \in Range(content) THEN Utf16OrLatin1(content, DecodeUtf16BE(content))
    ELSE Returned(DecodeLatin1(content))

\* the angle-bracket branch from bytes.fromhex on: its ValueError is not caught
DecodeHexBytes(hex) ==
    IF ~hex.ok THEN Raised("ValueError")
    ELSE Utf16OrLatin1(hex.bytes, DecodeUtf16BE(hex.bytes))

\* the angle-bracket branch, on inner = raw[1:-1]: decode('ascii') raises on a
\* byte above 127, and that is not caught either
DecodeAngle(inner) ==
    IF \E i \in 1..Len(inner) : inner[i] >= 128 THEN Raised("UnicodeDecodeError")
    ELSE DecodeHexBytes(FromHex(inner))

decode_field_name(raw) ==
    IF raw # <<>> /\ raw[1] = 40 /\ raw[Len(raw)] = 41
    THEN DecodeParenthesized(PySlice(raw, 1, -1))
    ELSE IF raw # <<>> /\ raw[1] = 60 /\ raw[Len(raw)] = 62
    THEN DecodeAngle(PySlice(raw, 1, -1))
    ELSE Returned(DecodeLatin1(raw))

---------------------------------------------------------------------------
(* collect_objects and collect_widget_defaults.                            *)

ObjHeader  == <<32, 48, 32, 111, 98, 106>>                         \* b' 0 obj'
EndObj     == <<101, 110, 100, 111, 98, 106>>                      \* b'endobj'
ObjStmType == <<47, 84, 121, 112, 101, 47, 79, 98, 106, 83, 116, 109>>  \* b'/Type/ObjStm'
StreamKw   == <<115, 116, 114, 101, 97, 109>>                      \* b'stream'
LengthKey  == <<47, 76, 101, 110, 103, 116, 104, 32>>              \* b'/Length '
NKey       == <<47, 78, 32>>                                       \* b'/N '
WidgetKey  == <<47, 83, 117, 98, 116, 121, 112, 101, 47, 87, 105, 100, 103, 101, 116>>  \* b'/Subtype/Widget'
DAKey      == <<47, 68, 65, 40>>                                   \* b'/DA('
TKey       == <<47, 84>>                                           \* b'/T'
RectKey    == <<47, 82, 101, 99, 116, 91>>                         \* b'/Rect['
Unknown    == <<85, 78, 75, 78, 79, 87, 78>>                       \* 'UNKNOWN'

\* the end (exclusive, 0-based) of the run of digits that starts at index s
DigitsEnd(buf, s) ==
    MinOr({i \in s..(Len(buf) - 1) : ~IsDigit(At(buf, i))}, Len(buf))

\* rb"(\d+) 0 obj" at or after `from`: the leftmost index where digits and then
\* b" 0 obj" stand; start -1 when there is none
NoHeader == [start |-> -1, obj_num |-> 0, end |-> 0]
HeaderAt(buf, s, e) ==
    IF s = -1 THEN NoHeader
    ELSE [start |-> s, obj_num |-> DigitsValue(PySlice(buf, s, e)), end |-> e + Len(ObjHeader)]
HeaderFrom(buf, s) == HeaderAt(buf, s, IF s = -1 THEN -1 ELSE DigitsEnd(buf, s))
FindObjHeader(buf, from) ==
    HeaderFrom(buf, MinOr({s \in from..(Len(buf) - 1) :
                              /\ IsDigit(At(buf, s))
                              /\ OccursAt(buf, ObjHeader, DigitsEnd(buf, s))}, -1))

NoMatch == [found |-> FALSE, obj_num |-> 0, body |-> <<>>, group0 |-> <<>>, end |-> 0]

\* the match whose header is h, whose group 2 ends at index e and which ends
\* at index end; none when the header or the rest of the pattern is missing
MatchOf(buf, h, e, end) ==
    IF h.start = -1 \/ e = -1 \/ end = -1 THEN NoMatch
    ELSE [found |-> TRUE, obj_num |-> h.obj_num,
          body |-> PySlice(buf, h.end, e),
          group0 |-> PySlice(buf, h.start, end),
          end |-> end]

PlainEnd(e) == IF e = -1 THEN -1 ELSE e + Len(EndObj)
PlainMatchTo(buf, h, e) == MatchOf(buf, h, e, PlainEnd(e))

\* a wrong plain-object pattern: greedy (.*) where the code has (.*?)
PlainMatchGreedy(buf, h) ==
    PlainMatchTo(buf, h, IF h.start = -1 THEN -1 ELSE FindLast(buf, EndObj, h.end))

\* the match of rb"(\d+) 0 obj(.*?)endobj" (re.S) with header h: it runs to
\* the first endobj after the header
PlainMatch(buf, h) ==
    PlainMatchTo(buf, h, IF h.start = -1 THEN -1 ELSE Find(buf, EndObj, h.end))

\* the next match of the plain-object pattern at or after `from`
FindPlainObject(buf, from) == PlainMatch(buf, FindObjHeader(buf, from))

\* where rb"stream\r?\n" ends when it stands at index k, else -1
StreamKwEnd(buf, k) ==
    IF ~OccursAt(buf, StreamKw, k) THEN -1
    ELSE IF OccursAt(buf, <<10>>, k + 6) THEN k + 7
    ELSE IF OccursAt(buf, <<13, 10>>, k + 6) THEN k + 8
    ELSE -1

\* the first index at or after `from` where rb"stream\r?\n" stands, else -1
FindStreamKw(buf, from) ==
    MinOr({k \in from..(Len(buf) - 1) : StreamKwEnd(buf, k) # -1}, -1)

StreamMatchKw(buf, h, m, k) ==
    MatchOf(buf, h, m, IF k = -1 THEN -1 ELSE StreamKwEnd(buf, k))
StreamMatchMarker(buf, h, m) ==
    StreamMatchKw(buf, h, m, IF m = -1 THEN -1 ELSE FindStreamKw(buf, m + Len(ObjStmType)))
StreamMatch(buf, h) ==
    StreamMatchMarker(buf, h, IF h.start = -1 THEN -1 ELSE Find(buf, ObjStmType, h.end))

\* the next match of rb"(\d+) 0 obj(.*?)/Type/ObjStm(.*?)stream\r?\n" (re.S) at
\* or after `from`: the leftmost header, the first type marker after it, the
\* first stream keyword after that; nothing in the pattern stops at an endobj
FindObjectStream(buf, from) == StreamMatch(buf, FindObjHeader(buf, from))

\* re.search(key + rb"(\d+)", section): the number after the first place where
\* the key is followed by a digit
NumberAt(section, s) ==
    IF s = -1 THEN [found |-> FALSE, value |-> 0]
    ELSE [found |-> TRUE, value |-> DigitsValue(PySlice(section, s, DigitsEnd(section, s)))]
SearchNumber(section, key) ==
    NumberAt(section, MinOr({i + Len(key) : i \in
                               {j \in 0..(Len(section) - 1) :
                                   /\ OccursAt(section, key, j)
                                   /\ j + Len(key) < Len(section)
                                   /\ IsDigit(At(section, j + Len(key)))}}, -1))

\* zlib, by its contract.  A compressed stream is a header byte, the payload
\* bytes each coded as a byte >= 128, an end-of-data byte and a checksum byte
\* (over the length and the two end bytes of the payload).
ZlibChecksum(p) ==
    128 + (IF p = <<>> THEN 1 ELSE (Len(p) + p[1] + 3 * p[Len(p)]) % 128)

ZlibCompress(p) ==
    <<120>> \o [i \in 1..Len(p) |-> 255 - p[i]] \o <<0, ZlibChecksum(p)>>

ZlibError == [ok |-> FALSE, data |-> <<>>]
Inflated(data, e, p) ==
    IF data[e + 1] # ZlibChecksum(p) THEN ZlibError ELSE [ok |-> TRUE, data |-> p]
InflateTo(data, e) ==
    IF e = 0 THEN ZlibError
    ELSE IF data[e] # 0 \/ e + 1 > Len(data) THEN ZlibError
    ELSE Inflated(data, e, [i \in 1..(e - 2) |-> 255 - data[i + 1]])

\* zlib.decompress(data): the payload, or zlib.error when the header is wrong,
\* a byte is no code, the data ends before the checksum, or the checksum is
\* wrong; bytes after the checksum are ignored
ZlibDecompress(data) ==
    IF data = <<>> THEN ZlibError
    ELSE IF data[1] # 120 THEN ZlibError
    ELSE InflateTo(data, MinOr({i \in 2..Len(data) : data[i] < 128}, 0))

\* what the body of the object-stream loop (of both collectors) gets from one
\* match: the decoded inner objects, or skip when /Length or /N is missing or
\* the data does not decompress
SkipStream == [skip |-> TRUE, inner |-> EmptyDict]
DecodeData(decoded, n_objects) ==
    IF ~decoded.ok THEN SkipStream
    ELSE [skip |-> FALSE, inner |-> parse_object_stream(decoded.data, n_objects)]
DecodeSection(buf, stream_start, length_match, n_match) ==
    IF ~length_match.found \/ ~n_match.found THEN SkipStream
    ELSE DecodeData(ZlibDecompress(PySlice(buf, stream_start,
                                           stream_start + length_match.value)),
                    n_match.value)
DecodeObjectStream(buf, match) ==
    DecodeSection(buf, match.end, SearchNumber(match.group0, LengthKey),
                  SearchNumber(match.group0, NKey))

\* objects[inner_num] = content.strip() for every item of inner_objects
RECURSIVE MergeInner(_, _, _)
MergeInner(objs, inner, i) ==
    IF i > Len(inner) THEN objs
    ELSE MergeInner(DictSet(objs, inner[i].k, PyStrip(inner[i].v)), inner, i + 1)

\* the body of the object-stream loop of collect_objects
MergeStream(objs, d) ==
    IF d.skip \/ d.inner = EmptyDict THEN objs ELSE MergeInner(objs, d.inner, 1)

\* the body of the plain-object loop of collect_objects
StorePlain(objs, match) ==
    IF Contains(match.body, ObjStmType) THEN objs
    ELSE DictSet(objs, match.obj_num, PyStrip(match.body))

\* re.search(key ... close, raw) for rb"/DA\(([^)]*)\)" and rb"/Rect\[([^\]]*)\]":
\* the bytes between the first key and the first closing byte after it
DelimitedTo(raw, start, c) ==
    IF c = -1 THEN [found |-> FALSE, group1 |-> <<>>]
    ELSE [found |-> TRUE, group1 |-> PySlice(raw, start, c)]
DelimitedFrom(raw, i, key, close) ==
    DelimitedTo(raw, i + Len(key), IF i = -1 THEN -1 ELSE Find(raw, <<close>>, i + Len(key)))
SearchDelimited(raw, key, close) == DelimitedFrom(raw, Find(raw, key, 0), key, close)

\* re.search(rb"/T(\([^\)]*\)|<[^>]*>)", raw): the leftmost /T followed by a
\* parenthesized or an angle-bracket token; the token with its delimiters
FieldTokenEnd(raw, p) ==
    IF OccursAt(raw, <<40>>, p + 2) THEN Find(raw, <<41>>, p + 3)
    ELSE IF OccursAt(raw, <<60>>, p + 2) THEN Find(raw, <<62>>, p + 3)
    ELSE -1
FieldTokenAt(raw, p) ==
    IF p = -1 THEN [found |-> FALSE, group1 |-> <<>>]
    ELSE [found |-> TRUE, group1 |-> PySlice(raw, p + 2, FieldTokenEnd(raw, p) + 1)]
SearchFieldName(raw) ==
    FieldTokenAt(raw, MinOr({p \in 0..(Len(raw) - 1) :
                                OccursAt(raw, TKey, p) /\ FieldTokenEnd(raw, p) # -1}, -1))

\* a wrong store that keeps the record of the first widget with a name
StoreRecordKeepFirst(d, field_name, record) ==
    IF DictHas(d, field_name) THEN d ELSE DictSet(d, field_name, record)

\* defaults[field_name] = (font_name, font_size, rect)
StoreRecord(d, field_name, record) == DictSet(d, field_name, record)

\* field_name = decode_field_name(t_match.group(1)) if t_match else 'UNKNOWN'
FieldNameOf(t_match) ==
    IF t_match.found THEN decode_field_name(t_match.group1) ELSE Returned(Unknown)

\* rect = rect_match.group(1).decode('latin1', ...) if rect_match else 'UNKNOWN'
RectOf(rect_match) ==
    IF rect_match.found THEN DecodeLatin1(rect_match.group1) ELSE Unknown

\* the last line of inspect_entry, on the state st = [defaults, scanned,
\* raised]; an exception of decode_field_name leaves the function before it
StoreEntry(st, field_name, record) ==
    IF field_name.raised
    THEN [defaults |-> st.defaults, scanned |-> st.scanned, raised |-> TRUE]
    ELSE [defaults |-> StoreRecord(st.defaults, field_name.str, record),
          scanned  |-> Append(st.scanned, [k |-> field_name.str, v |-> record]),
          raised   |-> FALSE]

InspectWidget(st, raw, da, rect) ==
    StoreEntry(st, FieldNameOf(SearchFieldName(raw)),
               [font_name |-> da.font_name, font_size |-> da.size, rect |-> rect])

InspectDA(st, raw, da_match) ==
    IF ~da_match.found THEN st
    ELSE InspectWidget(st, raw, parse_da(DecodeLatin1(da_match.group1)),
                       RectOf(SearchDelimited(raw, RectKey, 93)))

\* inspect_entry(raw) on the state st; nothing runs after an exception
inspect_entry(st, raw) ==
    IF st.raised THEN st
    ELSE IF ~Contains(raw, WidgetKey) \/ ~Contains(raw, DAKey) THEN st
    ELSE InspectDA(st, raw, SearchDelimited(raw, DAKey, 41))

\* for raw in inner_objects.values(): inspect_entry(raw)
RECURSIVE InspectAll(_, _, _)
InspectAll(st, raws, i) ==
    IF i > Len(raws) THEN st
    ELSE InspectAll(inspect_entry(st, raws[i]), raws, i + 1)

\* the body of the direct-object loop of collect_widget_defaults
InspectPlain(st, match) ==
    IF Contains(match.body, ObjStmType) THEN st ELSE inspect_entry(st, match.body)

\* the body of the object-stream loop of collect_widget_defaults
InspectStream(st, d) ==
    IF d.skip THEN st ELSE InspectAll(st, DictValues(d.inner), 1)

---------------------------------------------------------------------------
(* Inputs of parse_da: DA strings made of a few tokens, and the call of    *)
(* the function on them.                                                   *)

\* the tokens DA strings are made of, with what the builder knows of each:
\* a font resource name (written with its leading slash), a number and its
\* value, a token ending in the set-font operator, or something else
DATokens ==
    { [text |-> <<47, 72, 101, 108, 118>>, kind |-> "font",          \* '/Helv'
       name |-> <<72, 101, 108, 118>>, value |-> NaN],
      [text |-> <<49, 48>>, kind |-> "num", name |-> <<>>,           \* '10'
       value |-> [kind |-> "num", neg |-> FALSE, mant |-> 1, exp |-> 1]],
      [text |-> <<49, 50, 46, 53>>, kind |-> "num", name |-> <<>>,   \* '12.5'
       value |-> [kind |-> "num", neg |-> FALSE, mant |-> 125, exp |-> -1]],
      [text |-> <<84, 102>>, kind |-> "op", name |-> <<>>, value |-> NaN],        \* 'Tf'
      [text |-> <<120, 84, 102>>, kind |-> "op", name |-> <<>>, value |-> NaN],   \* 'xTf'
      [text |-> <<103>>, kind |-> "other", name |-> <<>>, value |-> NaN] }        \* 'g'

DATokenLists == UNION {[1..n -> DATokens] : n \in 0..MaxTokens}

\* the tokens, separated by single spaces
RECURSIVE JoinTokens(_, _)
JoinTokens(toks, i) ==
    IF i > Len(toks) THEN <<>>
    ELSE (IF i = 1 THEN <<>> ELSE <<32>>) \o toks[i].text \o JoinTokens(toks, i + 1)

DAInit ==
    /\ pc = "call"
    /\ \E toks \in DATokenLists :
          /\ fixture = [tokens |-> toks]
          /\ arg = JoinTokens(toks, 1)
    /\ ret = [font_name |-> <<>>, size |-> NaN]
    /\ pdf_bytes = <<>> /\ pos = 0 /\ objects = EmptyDict
    /\ defaults = EmptyDict /\ scanned = <<>>

CallParseDA ==
    /\ pc = "call"
    /\ ret' = parse_da(arg)
    /\ pc' = "ret"
    /\ UNCHANGED <<pdf_bytes, pos, objects, defaults, scanned, arg, fixture>>

DANext == CallParseDA

SpecDA == DAInit /\ [][DANext]_vars

\* C5: "/F s Tf" and the order-swapped "s /F Tf" both give font name F and
\* size s; a DA string with no token ending in Tf gives the empty font name
\* and the NaN size.
C5_FontAndSize ==
    pc = "ret" =>
        LET toks == fixture.tokens
        IN  /\ (/\ Len(toks) = 3
                /\ toks[1].kind = "font" /\ toks[2].kind = "num" /\ toks[3].text = Tf)
               => (ret.font_name = toks[1].name /\ ret.size = toks[2].value)
            /\ (/\ Len(toks) = 3
                /\ toks[1].kind = "num" /\ toks[2].kind = "font" /\ toks[3].text = Tf)
               => (ret.font_name = toks[2].name /\ ret.size = toks[1].value)
            /\ (\A i \in 1..Len(toks) : ~EndsWith(toks[i].text, Tf))
               => (ret.font_name = <<>> /\ ret.size = NaN)

\* C10: parse_da stops at the first token ending in Tf; the font name and the
\* size come only from the (at most two) tokens right before that token, never
\* from the operator token or a later one, also when fewer than two tokens
\* precede it; the size is the token just before the operator when that is a
\* number, else the one before that, else NaN.
C10_FirstOperatorOnly ==
    pc = "ret" =>
        LET toks  == fixture.tokens
            ops   == {i \in 1..Len(toks) : EndsWith(toks[i].text, Tf)}
            f     == Min(ops)
            cands == {f - 1, f - 2} \cap (1..Len(toks))
            nums  == {j \in cands : PyFloat(toks[j].text).ok}
        IN  IF ops = {} THEN ret.font_name = <<>> /\ ret.size = NaN
            ELSE /\ ret.font_name \in {<<>>} \cup {toks[j].text : j \in cands}
                 /\ ret.size \in {NaN} \cup {PyFloat(toks[j].text).value : j \in nums}
                 /\ nums = {} => ret.size = NaN
                 /\ (f - 1) \in nums => ret.size = PyFloat(toks[f - 1].text).value

---------------------------------------------------------------------------
(* Inputs of decode_field_name: the three forms of token, over a few       *)
(* bytes, and the call of the function on them.                            *)

\* NUL, 'H', '0', '4', '8', 'z', 0xFF
NameAlphabet == {0, 72, 48, 52, 56, 122, 255}

NameContents == UNION {[1..n -> NameAlphabet] : n \in 0..MaxNameLen}

NameInit ==
    /\ pc = "call"
    /\ \E c \in NameContents :
          \/ fixture = [form |-> "paren", content |-> c] /\ arg = <<40>> \o c \o <<41>>
          \/ fixture = [form |-> "hex", content |-> c] /\ arg = <<60>> \o c \o <<62>>
          \/ fixture = [form |-> "other", content |-> c] /\ arg = c
    /\ ret = Returned(<<>>)
    /\ pdf_bytes = <<>> /\ pos = 0 /\ objects = EmptyDict
    /\ defaults = EmptyDict /\ scanned = <<>>

CallDecodeFieldName ==
    /\ pc = "call"
    /\ ret' = decode_field_name(arg)
    /\ pc' = "ret"
    /\ UNCHANGED <<pdf_bytes, pos, objects, defaults, scanned, arg, fixture>>

NameNext == CallDecodeFieldName

SpecName == NameInit /\ [][NameNext]_vars

\* C8: decode_field_name never raises, whatever the token (parenthesized with
\* or without NUL bytes, angle-bracket of any content, any other form); the
\* hex token <0048> gives "H" and a parenthesized ASCII string gives its
\* content unchanged.
C8_NeverRaises ==
    pc = "ret" =>
        /\ ~ret.raised
        /\ (fixture.form = "hex" /\ fixture.content = <<48, 48, 52, 56>>)
           => ret.str = <<72>>
        /\ (fixture.form = "paren" /\ \A i \in 1..Len(fixture.content) :
                                         fixture.content[i] \in 32..126)
           => ret.str = fixture.content

---------------------------------------------------------------------------
(* Documents: a few indirect objects one after the other.  Each kind of    *)
(* object comes with what its builder knows about it: the definitions it   *)
(* makes (object number, content once trimmed, and the widget it holds).   *)

\* what is known of an object that holds no widget
NoWidget == [is |-> FALSE, name |-> <<>>, font_size |-> NaN, rect |-> <<>>]

\* a widget dictionary with DA "/<letter> <digit> Tf", an optional /T token and
\* an optional /Rect
WidgetBody(letter, digit, t_token, rect) ==
    WidgetKey \o DAKey \o <<47, letter, 32, digit, 32>> \o Tf \o <<41>>
    \o (IF t_token = <<>> THEN <<>> ELSE TKey \o t_token)
    \o (IF rect = <<>> THEN <<>> ELSE RectKey \o rect \o <<93>>)

\* what is known of that widget: its field name, the size of its DA, its rect
WidgetFact(digit, name, rect) ==
    [is |-> TRUE, name |-> name,
     font_size |-> [kind |-> "num", neg |-> FALSE, mant |-> digit - 48, exp |-> 0],
     rect |-> IF rect = <<>> THEN Unknown ELSE rect]

Def(num, content, widget) == [num |-> num, content |-> content, widget |-> widget]

\* <num> 0 obj <pre><core><post> endobj
PlainSeg(num, pre, core, post, widget, carries, badname) ==
    [bytes   |-> Digits(num) \o ObjHeader \o pre \o core \o post \o EndObj \o <<10>>,
     kind    |-> "plain",
     defs    |-> <<Def(num, core, widget)>>,
     carries |-> carries,
     badname |-> badname,
     fail    |-> ""]

\* <num> 0 obj <</Type/ObjStm [/Length L] [/N n]>> stream <data> endstream endobj
ObjStmSeg(num, defs, data, length, n, fail) ==
    [bytes   |-> Digits(num) \o ObjHeader \o <<60, 60>> \o ObjStmType
                 \o (IF length = -1 THEN <<>> ELSE LengthKey \o Digits(length))
                 \o (IF n = -1 THEN <<>> ELSE NKey \o Digits(n))
                 \o <<62, 62>> \o StreamKw \o <<10>> \o data
                 \o <<10, 101, 110, 100>> \o StreamKw \o <<10>> \o EndObj \o <<10>>,
     kind    |-> "objstm",
     defs    |-> defs,
     carries |-> FALSE,
     badname |-> FALSE,
     fail    |-> fail]

\* the compressed object stream of the definitions, as a PDF writer lays it
\* out: header pairs, a space, the contents separated by spaces
Packed(defs) == ZlibCompress(BuildObjectStream(defs, <<32>>, <<32>>))

\* a well-formed object stream
GoodObjStm(num, defs) ==
    ObjStmSeg(num, defs, Packed(defs), Len(Packed(defs)), Len(defs), "")

WA == WidgetBody(65, 49, <<40, 88, 41>>, <<>>)                       \* /A 1, /T(X)
WB == WidgetBody(66, 50, <<60, 48, 48, 53, 56, 62>>, <<48, 32, 48, 32, 57, 32, 57>>)  \* /B 2, /T<0058>, /Rect[0 0 9 9]
WC == WidgetBody(67, 51, <<>>, <<>>)                                 \* /C 3, no /T
WD == WidgetBody(68, 52, <<60, 48, 62>>, <<>>)                       \* /D 4, /T<0>
WE == WidgetBody(69, 53, <<40, 88, 41>>, <<>>)                       \* /E 5, /T(X)
WF == WidgetBody(70, 54, <<40, 89, 41>>, <<>>)                       \* /F 6, /T(Y)
WG == WidgetBody(71, 55, <<40, 89, 41>>, <<>>)                       \* /G 7, /T(Y)
WH == WidgetBody(72, 56, <<40, 89, 41>>, <<>>)                       \* /H 8, /T(Y)

\* b'<</Length 12>>stream\nabcdefghijkl\nendstream': a stream object that is
\* no object stream and carries its own /Length
PlainStream ==
    <<60, 60>> \o LengthKey \o <<49, 50, 62, 62>> \o StreamKw
    \o <<10, 97, 98, 99, 100, 101, 102, 103, 104, 105, 106, 107, 108, 10, 101, 110, 100>>
    \o StreamKw

SegTable ==
    [ P_A   |-> PlainSeg(1, <<10>>, <<65>>, <<10>>, NoWidget, FALSE, FALSE),
      P_B   |-> PlainSeg(1, <<32>>, <<66>>, <<32>>, NoWidget, FALSE, FALSE),
      P_L   |-> PlainSeg(2, <<>>, PlainStream, <<10>>, NoWidget, TRUE, FALSE),
      W_X1  |-> PlainSeg(3, <<>>, WA, <<>>, WidgetFact(49, <<88>>, <<>>), FALSE, FALSE),
      W_X2  |-> PlainSeg(4, <<10>>, WB, <<>>,
                         WidgetFact(50, <<88>>, <<48, 32, 48, 32, 57, 32, 57>>), FALSE, FALSE),
      W_U   |-> PlainSeg(5, <<>>, WC, <<10>>, WidgetFact(51, Unknown, <<>>), FALSE, FALSE),
      W_bad |-> PlainSeg(6, <<>>, WD, <<>>, NoWidget, FALSE, TRUE),
      S_1   |-> GoodObjStm(7, <<Def(1, <<67>>, NoWidget),
                                Def(3, WE, WidgetFact(53, <<88>>, <<>>))>>),
      S_dup |-> GoodObjStm(8, <<Def(9, WF, WidgetFact(54, <<89>>, <<>>)),
                                Def(10, WG, WidgetFact(55, <<89>>, <<>>)),
                                Def(9, WH, WidgetFact(56, <<89>>, <<>>))>>),
      F_zlib  |-> ObjStmSeg(11, <<Def(22, <<>>, NoWidget)>>,
                            <<103, 97, 114, 98, 97, 103, 101>>, 7, 1, "zlib"),
      F_noN   |-> ObjStmSeg(12, <<Def(20, <<71>>, NoWidget)>>,
                            Packed(<<Def(20, <<71>>, NoWidget)>>),
                            Len(Packed(<<Def(20, <<71>>, NoWidget)>>)), -1, "no /N"),
      F_noLen |-> ObjStmSeg(13, <<Def(21, <<72>>, NoWidget)>>,
                            Packed(<<Def(21, <<72>>, NoWidget)>>), -1, 1, "no /Length"),
      F_hdr   |-> ObjStmSeg(14, <<Def(23, <<>>, NoWidget)>>,
                            ZlibCompress(<<120, 32, 48, 32, 81>>), 8, 1, "header") ]

SegIds == DOMAIN SegTable

SegLists == UNION {[1..n -> SegIds] : n \in 0..MaxSegs}

RECURSIVE Render(_, _)
Render(ids, i) ==
    IF i > Len(ids) THEN <<>> ELSE SegTable[ids[i]].bytes \o Render(ids, i + 1)

---------------------------------------------------------------------------
(* main: collect_objects, then collect_widget_defaults, on one document.   *)

Init ==
    /\ \E ids \in SegLists :
          /\ fixture = [segs |-> ids]
          /\ pdf_bytes = Render(ids, 1)
    /\ pc = "co_plain"
    /\ pos = 0
    /\ objects = EmptyDict
    /\ defaults = EmptyDict
    /\ scanned = <<>>
    /\ arg = <<>>
    /\ ret = <<>>

\* one iteration of the plain-object loop of collect_objects
collect_objects_plain ==
    /\ pc = "co_plain"
    /\ LET Body(match) ==
               /\ match.found
               /\ objects' = StorePlain(objects, match)
               /\ pos' = match.end
       IN  Body(FindPlainObject(pdf_bytes, pos))
    /\ UNCHANGED <<pc, pdf_bytes, defaults, scanned, arg, ret, fixture>>

\* the plain-object loop is over: the object-stream loop starts
collect_objects_plain_end ==
    /\ pc = "co_plain"
    /\ ~FindPlainObject(pdf_bytes, pos).found
    /\ pc' = "co_stream"
    /\ pos' = 0
    /\ UNCHANGED <<pdf_bytes, objects, defaults, scanned, arg, ret, fixture>>

\* one iteration of the object-stream loop of collect_objects
collect_objects_stream ==
    /\ pc = "co_stream"
    /\ LET Body(match) ==
               /\ match.found
               /\ objects' = MergeStream(objects, DecodeObjectStream(pdf_bytes, match))
               /\ pos' = match.end
       IN  Body(FindObjectStream(pdf_bytes, pos))
    /\ UNCHANGED <<pc, pdf_bytes, defaults, scanned, arg, ret, fixture>>

\* collect_objects returns; main calls collect_widget_defaults
collect_objects_return ==
    /\ pc = "co_stream"
    /\ ~FindObjectStream(pdf_bytes, pos).found
    /\ pc' = "wd_plain"
    /\ pos' = 0
    /\ UNCHANGED <<pdf_bytes, objects, defaults, scanned, arg, ret, fixture>>

\* the state inspect_entry works on, and what an iteration leaves of it; an
\* exception of decode_field_name ends the program
Inspector == [defaults |-> defaults, scanned |-> scanned, raised |-> FALSE]
Inspected(out, same_pc) ==
    /\ defaults' = out.defaults
    /\ scanned' = out.scanned
    /\ pc' = IF out.raised THEN "raised" ELSE same_pc

\* one iteration of the direct-object loop of collect_widget_defaults
collect_widget_defaults_plain ==
    /\ pc = "wd_plain"
    /\ LET Body(match) ==
               /\ match.found
               /\ Inspected(InspectPlain(Inspector, match), "wd_plain")
               /\ pos' = match.end
       IN  Body(FindPlainObject(pdf_bytes, pos))
    /\ UNCHANGED <<pdf_bytes, objects, arg, ret, fixture>>

\* the direct-object loop is over: the object-stream loop starts
collect_widget_defaults_plain_end ==
    /\ pc = "wd_plain"
    /\ ~FindPlainObject(pdf_bytes, pos).found
    /\ pc' = "wd_stream"
    /\ pos' = 0
    /\ UNCHANGED <<pdf_bytes, objects, defaults, scanned, arg, ret, fixture>>

\* one iteration of the object-stream loop of collect_widget_defaults
collect_widget_defaults_stream ==
    /\ pc = "wd_stream"
    /\ LET Body(match) ==
               /\ match.found
               /\ Inspected(InspectStream(Inspector, DecodeObjectStream(pdf_bytes, match)),
                            "wd_stream")
               /\ pos' = match.end
       IN  Body(FindObjectStream(pdf_bytes, pos))
    /\ UNCHANGED <<pdf_bytes, objects, arg, ret, fixture>>

\* collect_widget_defaults returns
collect_widget_defaults_return ==
    /\ pc = "wd_stream"
    /\ ~FindObjectStream(pdf_bytes, pos).found
    /\ pc' = "done"
    /\ UNCHANGED <<pdf_bytes, pos, objects, defaults, scanned, arg, ret, fixture>>

Next ==
    \/ collect_objects_plain
    \/ collect_objects_plain_end
    \/ collect_objects_stream
    \/ collect_objects_return
    \/ collect_widget_defaults_plain
    \/ collect_widget_defaults_plain_end
    \/ collect_widget_defaults_stream
    \/ collect_widget_defaults_return

Spec == Init /\ [][Next]_vars

---------------------------------------------------------------------------
(* What the builder of a document knows about it.                          *)

NSegs == Len(fixture.segs)
SegOf(i) == SegTable[fixture.segs[i]]

PlainIdx == {i \in 1..NSegs : SegOf(i).kind = "plain"}
StreamIdx == {i \in 1..NSegs : SegOf(i).kind = "objstm"}
GoodStreamIdx == {i \in StreamIdx : SegOf(i).fail = ""}
FailingIdx == {i \in StreamIdx : SegOf(i).fail # ""}

DefNums(i) == {SegOf(i).defs[d].num : d \in 1..Len(SegOf(i).defs)}

\* collect_objects has returned
AfterCollect == pc \in {"wd_plain", "wd_stream", "done", "raised"}

\* an object that carries /Length or /N stands between object stream j and
\* the object stream before it (or the start of the document)
Crossed(j) ==
    \E i \in 1..(j - 1) :
        /\ SegOf(i).carries
        /\ \A k \in (i + 1)..(j - 1) : SegOf(k).kind # "objstm"

\* the object-stream pass decodes stream j with that stream's own attributes
DecodedStream(j) == j \in GoodStreamIdx /\ ~Crossed(j)

IsWidget(w) == w.is

\* the widgets of a stream's entries, in the order of its header
HeaderOrder(defs) == [d \in 1..Len(defs) |-> defs[d].widget]

\* the widgets of a stream's entries as a mapping keeps them: one per object
\* number, placed where the number first stands in the header, with the
\* content of the last entry of that number
LastEntry(defs, n) == Max({e \in 1..Len(defs) : defs[e].num = n})
RECURSIVE FirstAppearanceOrder(_, _)
FirstAppearanceOrder(defs, d) ==
    IF d > Len(defs) THEN <<>>
    ELSE (IF \E e \in 1..(d - 1) : defs[e].num = defs[d].num THEN <<>>
          ELSE <<defs[LastEntry(defs, defs[d].num)].widget>>)
         \o FirstAppearanceOrder(defs, d + 1)

\* the widgets of the plain objects, in document order
RECURSIVE PlainWidgets(_)
PlainWidgets(i) ==
    IF i > NSegs THEN <<>>
    ELSE (IF i \in PlainIdx THEN SelectSeq(HeaderOrder(SegOf(i).defs), IsWidget) ELSE <<>>)
         \o PlainWidgets(i + 1)

\* the widgets of the decoded object streams, in document order
RECURSIVE StreamWidgets(_, _)
StreamWidgets(i, header_order) ==
    IF i > NSegs THEN <<>>
    ELSE (IF ~DecodedStream(i) THEN <<>>
          ELSE SelectSeq(IF header_order THEN HeaderOrder(SegOf(i).defs)
                         ELSE FirstAppearanceOrder(SegOf(i).defs, 1), IsWidget))
         \o StreamWidgets(i + 1, header_order)

ScanOrder(header_order) == PlainWidgets(1) \o StreamWidgets(1, header_order)

\* the last element of a sequence of widgets that has the name
LastNamed(ws, name) == ws[Max({i \in 1..Len(ws) : ws[i].name = name})]
Names(ws) == {ws[i].name : i \in 1..Len(ws)}

\* the records stored, in the order they were stored, as widgets
Stored ==
    [i \in 1..Len(scanned) |->
        [is |-> TRUE, name |-> scanned[i].k,
         font_size |-> scanned[i].v.font_size, rect |-> scanned[i].v.rect]]

\* the last definition of object number n in document order, over the plain
\* objects and the entries of the object streams
Definitions(n) ==
    {p \in (1..NSegs) \X (1..3) :
        p[2] <= Len(SegOf(p[1]).defs) /\ SegOf(p[1]).defs[p[2]].num = n}
LastDefinition(n) ==
    CHOOSE p \in Definitions(n) :
        \A q \in Definitions(n) : q[1] < p[1] \/ (q[1] = p[1] /\ q[2] <= p[2])
ContentAt(p) == SegOf(p[1]).defs[p[2]].content

---------------------------------------------------------------------------
(* The claims about collect_objects and collect_widget_defaults.           *)

\* C1: after collect_objects on a well-formed document (no failing stream, no
\* malformed field name), every object number listed in the header of every
\* object stream is a key of the ObjectMap, whatever precedes the stream.
C1_StreamNumbersPresent ==
    (AfterCollect /\ FailingIdx = {} /\ \A i \in 1..NSegs : ~SegOf(i).badname) =>
        \A i \in StreamIdx : DefNums(i) \subseteq DictKeys(objects)

\* C2: for a document of plain objects only, the ObjectMap has exactly the
\* object numbers of the spans as keys, one entry per number, and each value
\* is the body of the (last) span of that number with the whitespace around it
\* removed.
C2_PlainObjects ==
    (AfterCollect /\ StreamIdx = {}) =>
        /\ DictKeys(objects) = UNION {DefNums(i) : i \in PlainIdx}
        /\ Len(objects) = Cardinality(DictKeys(objects))
        /\ \A n \in DictKeys(objects) :
              DictGet(objects, n) = ContentAt(LastDefinition(n))

\* C2 witness: two plain objects with different numbers, the first with
\* whitespace around its body, both collected and the first one trimmed.
C2_Witness ==
    /\ AfterCollect
    /\ NSegs = 2
    /\ StreamIdx = {}
    /\ fixture.segs[1] = "P_B"
    /\ Len(objects) = 2
    /\ DictGet(objects, 1) = <<66>>

\* C3: when an object number is defined more than once (plain objects, stream
\* entries, or both), the ObjectMap holds the content of the definition that
\* comes last in the document.  Stated on documents where every object stream
\* decodes and none is preceded by an object carrying /Length or /N.
C3_LastDefinitionWins ==
    (AfterCollect /\ FailingIdx = {} /\ \A i \in 1..NSegs : ~SegOf(i).carries) =>
        \A n \in DictKeys(objects) :
            /\ Definitions(n) # {}
            /\ DictGet(objects, n) = ContentAt(LastDefinition(n))

C9_FailureIsolated ==
    (/\ pc \in {"done", "raised"}
     /\ FailingIdx # {}
     /\ \A i \in 1..NSegs : ~SegOf(i).badname) =>
        /\ pc = "done"
        /\ \A i \in FailingIdx : DefNums(i) \cap DictKeys(objects) = {}
        /\ \A i \in PlainIdx \cup GoodStreamIdx : DefNums(i) \subseteq DictKeys(objects)
        /\ \A i \in PlainIdx \cup GoodStreamIdx :
              \A d \in 1..Len(SegOf(i).defs) :
                  SegOf(i).defs[d].widget.is =>
                      DictHas(defaults, SegOf(i).defs[d].widget.name)

===========================================================================
